---- MODULE Spec2Model ----
(***************************************************************************)
(* Model of src/src/App.tsx: the movie list view of films-tv.              *)
(*                                                                         *)
(* getMovies fetches a JSON document; useQuery holds its state; the table  *)
(* filters the movies on their start time, sorts them on the start-time    *)
(* column and renders one row of cells per movie.                          *)
(*                                                                         *)
(* Encoding of JavaScript values:                                          *)
(*   - a value that may be undefined is a box: <<>> is undefined (or a     *)
(*     missing JSON field), <<v>> is the value v;                          *)
(*   - a text that is taken apart (titles, director names, URLs, cells) is *)
(*     a sequence of one-character strings;                                *)
(*   - an ISO 8601 timestamp string is the record of its wall-clock hour   *)
(*     and its UTC offset in hours, or a string Date cannot parse;         *)
(*   - wall-clock time advances in steps of one hour; instants are         *)
(*     milliseconds, as Date.getTime() returns them.                       *)
(***************************************************************************)
EXTENDS Integers, Sequences, FiniteSets, TLC

VARIABLES
    feed,        \* the JSON document the remote endpoint serves
    clock,       \* wall-clock time, in hours since the epoch of the model
    query,       \* useQuery's state for queryKey ['movies']
    origin,      \* the response whose body became the query's data, boxed
    tableState,  \* useReactTable's state: sorting and columnFilters
    rowModel,    \* the memoised filtered and sorted row model of the table
    view         \* what App last rendered

vars == <<feed, clock, query, origin, tableState, rowModel, view>>

----------------------------------------------------------------------------
(* Bounds of the model *)

MaxMovies == 2
MaxWall == 2
MaxClock == 2
MaxTitleLen == 2
MaxDirectors == 2

----------------------------------------------------------------------------
(* JavaScript values *)

Undefined == <<>>
Some(v) == <<v>>
NaN == <<>>

\* `${x}` of a text or of undefined
UndefinedText == <<"u", "n", "d", "e", "f", "i", "n", "e", "d">>
TemplateText(box) == IF box = Undefined THEN UndefinedText ELSE box[1]

RECURSIVE Digits(_)
Digits(n) ==
    LET d == <<"0", "1", "2", "3", "4", "5", "6", "7", "8", "9">>
    IN  IF n < 10 THEN <<d[n + 1]>> ELSE Digits(n \div 10) \o <<d[(n % 10) + 1]>>

\* `${n}` of a number; numbers are held in tenths (75 is 7.5, 850 is 85)
NumberText(tenths) ==
    IF tenths % 10 = 0
        THEN Digits(tenths \div 10)
        ELSE Digits(tenths \div 10) \o <<".">> \o Digits(tenths % 10)

\* the truthiness of a number that may be undefined: 0 is falsy
Truthy(box) == box # Undefined /\ box[1] # 0

----------------------------------------------------------------------------
(* Timestamps *)

MsPerHour == 60 * 60 * 1000

Offsets == {0, 2}

InvalidDateString == [valid |-> FALSE, wall |-> 0, off |-> 0]

DateStrings == [valid : {TRUE}, wall : 0..MaxWall, off : Offsets]

\* new Date(s).getTime(): NaN for undefined and for an unparsable string
DateGetTime(box) ==
    IF box = Undefined THEN NaN
    ELSE IF ~box[1].valid THEN NaN
    ELSE Some((box[1].wall - box[1].off) * MsPerHour)

\* new Date().getTime()
NowTimeStamp(hour) == hour * MsPerHour

----------------------------------------------------------------------------
(* The payload: interfaces RatingsInfo, Movie and MoviesResponse *)

RatingsInfo(rotten, imdb) == [rottenRating |-> rotten, imdbRating |-> imdb]

\* a movie as the interface declares it: every field present, the two ratings
\* optional; the broadcast stops when it starts, which no column depends on
Movie(title, directors, start, rotten, imdb) ==
    [title         |-> Some(title),
     directors     |-> Some(directors),
     iconUrl       |-> Some("poster.jpg"),
     startDateTime |-> Some(start),
     stopDateTime  |-> Some(start),
     channelId     |-> Some("tf1"),
     ratingsInfo   |-> Some(RatingsInfo(rotten, imdb))]

MoviesResponse(movies) == [movies |-> Some(movies)]

\* a JSON body that is no MoviesResponse, such as {"message": "Not Found"}
ErrorDocument == [movies |-> Undefined]

----------------------------------------------------------------------------
(* getMovies *)

\* what fetch() can meet: no response at all, or a response with a status
\* and a body that parses as JSON (a box holding the value) or does not; the
\* JSON body of a response outside 2xx is an error document
Responses(document) ==
    {[received |-> FALSE, status |-> 0, body |-> Undefined]}
    \cup [received : {TRUE}, status : {200}, body : {Some(document), Undefined}]
    \cup [received : {TRUE}, status : {404},
          body : {Some(ErrorDocument), Undefined}]

Rejected(message) == [resolved |-> FALSE, json |-> Undefined, message |-> message]
Resolved(json) == [resolved |-> TRUE, json |-> Some(json), message |-> ""]

\* await fetch(url) rejects on a network failure only; await res.json()
\* rejects on a body that is not JSON; res.ok and res.status are not read
getMovies(res) ==
    IF ~res.received THEN Rejected("Failed to fetch")
    ELSE IF res.body = Undefined THEN Rejected("Unexpected token")
    ELSE Resolved(res.body[1])

----------------------------------------------------------------------------
(* columns: the accessor and the cell of each column.  A cell is a box:    *)
(* <<>> when the accessor or the cell function throws a TypeError.         *)

Threw == <<>>

\* encodeURIComponent, character by character: an unreserved character stays,
\* any other becomes the percent-escape of its UTF-8 byte
PercentEscape(c) ==
    CASE c = " " -> <<"%", "2", "0">>
      [] c = "#" -> <<"%", "2", "3">>
      [] c = "%" -> <<"%", "2", "5">>
      [] c = "&" -> <<"%", "2", "6">>
      [] c = "+" -> <<"%", "2", "B">>
      [] OTHER   -> <<c>>

RECURSIVE encodeURIComponent(_)
encodeURIComponent(text) ==
    IF text = <<>> THEN <<>>
    ELSE PercentEscape(Head(text)) \o encodeURIComponent(Tail(text))

SearchUrl == "https://google.fr/search?q="

\* info.row.original.directors[0]
FirstDirector(row) ==
    IF Len(row.directors[1]) = 0 THEN Undefined ELSE Some(row.directors[1][1])

\* a variant of searchQuery that names the last director
searchQueryLastDirector(row) ==
    TemplateText(row.title) \o <<" ">>
        \o TemplateText(IF Len(row.directors[1]) = 0 THEN Undefined
                        ELSE Some(row.directors[1][Len(row.directors[1])]))

\* `${info.getValue()} ${info.row.original.directors[0]}`
searchQuery(row) ==
    TemplateText(row.title) \o <<" ">> \o TemplateText(FirstDirector(row))

\* column Titre: the title in a link to the search; indexing directors
\* throws when the record has no directors field
TitleCell(row) ==
    IF row.directors = Undefined THEN Threw
    ELSE Some([href |-> <<SearchUrl>> \o encodeURIComponent(searchQuery(row)),
               text |-> row.title])

\* column Image
ImageCell(row) == Some([src |-> row.iconUrl, width |-> 200])

\* column Chaine: no cell function, the value itself
ChannelCell(row) == Some(row.channelId)

\* a variant of the rating cells that tests the rating for presence only
RottenCellPresence(value) ==
    IF value # Undefined THEN NumberText(value[1]) \o <<"%">> ELSE <<"-">>

\* info.getValue() ? `${info.getValue()}%` : '-'
RottenCell(value) ==
    IF Truthy(value) THEN NumberText(value[1]) \o <<"%">> ELSE <<"-">>

\* info.getValue() ? `${info.getValue()}/10` : '-'
ImdbCell(value) ==
    IF Truthy(value) THEN NumberText(value[1]) \o <<"/", "1", "0">> ELSE <<"-">>

\* the accessors row.ratingsInfo.rottenRating and row.ratingsInfo.imdbRating
\* throw when the record has no ratingsInfo field
RottenColumn(row) ==
    IF row.ratingsInfo = Undefined THEN Threw
    ELSE Some(RottenCell(row.ratingsInfo[1].rottenRating))

ImdbColumn(row) ==
    IF row.ratingsInfo = Undefined THEN Threw
    ELSE Some(ImdbCell(row.ratingsInfo[1].imdbRating))

\* column Heure: the start as a local date and time, with the local times of
\* start and stop as its tooltip; a formatted instant is held as the instant
StartCell(row) ==
    Some([title |-> <<DateGetTime(row.startDateTime), DateGetTime(row.stopDateTime)>>,
          text  |-> DateGetTime(row.startDateTime)])

oneHour == 60 * 60 * 1000

\* a variant of filterFn that keeps the instant one hour ago
filterFnInclusive(row, columnId, filterValue, nowTimeStamp) ==
    LET startTimeStamp == DateGetTime(row.original.startDateTime)
    IN  startTimeStamp # NaN /\ nowTimeStamp - oneHour <= startTimeStamp[1]

\* a variant of filterFn that applies only under the initial filter value
filterFnByValue(row, columnId, filterValue, nowTimeStamp) ==
    LET startTimeStamp == DateGetTime(row.original.startDateTime)
    IN  /\ filterValue = "dummy"
        /\ startTimeStamp # NaN
        /\ nowTimeStamp - oneHour < startTimeStamp[1]

\* filterFn of the start-time column; a comparison with NaN is false
filterFn(row, columnId, filterValue, nowTimeStamp) ==
    LET startTimeStamp == DateGetTime(row.original.startDateTime)
    IN  IF startTimeStamp # NaN /\ nowTimeStamp - oneHour < startTimeStamp[1]
            THEN TRUE
            ELSE FALSE

\* the cells of one row, or Threw when one of them throws
RowCells(row) ==
    LET m == row.original
        cells == <<TitleCell(m), ImageCell(m), ChannelCell(m), RottenColumn(m),
                   ImdbColumn(m), StartCell(m)>>
    IN  IF \E k \in 1..Len(cells) : cells[k] = Threw THEN Threw
        ELSE Some([id       |-> row.index,
                   original |-> m,
                   title    |-> cells[1][1],
                   image    |-> cells[2][1],
                   channel  |-> cells[3][1],
                   rotten   |-> cells[4][1],
                   imdb     |-> cells[5][1],
                   start    |-> cells[6][1]])

----------------------------------------------------------------------------
(* useReactTable: the filtered and the sorted row model *)

fallbackData == <<>>

\* initialState of useReactTable
InitialTableState ==
    [sorting       |-> <<[id |-> "startDateTime", desc |-> FALSE]>>,
     columnFilters |-> <<[id |-> "startDateTime", value |-> "dummy"]>>]

\* data?.movies ?? fallbackData
TableData(data) ==
    IF data = Undefined THEN fallbackData
    ELSE IF data[1].movies = Undefined THEN fallbackData
    ELSE data[1].movies[1]

CoreRows(movies) == [i \in 1..Len(movies) |-> [index |-> i, original |-> movies[i]]]

\* a row passes when the filter function of every filtered column accepts it;
\* the start-time column is the one column of the table with an id to filter on
PassesFilters(row, columnFilters, nowTimeStamp) ==
    \A k \in 1..Len(columnFilters) :
        columnFilters[k].id = "startDateTime" =>
            filterFn(row, columnFilters[k].id, columnFilters[k].value, nowTimeStamp)

RECURSIVE FilterRows(_, _, _)
\* getFilteredRowModel: the rows in data order, each tested at its own instant
FilterRows(rows, columnFilters, nows) ==
    IF rows = <<>> THEN <<>>
    ELSE LET rest == FilterRows(Tail(rows), columnFilters, Tail(nows))
         IN  IF PassesFilters(Head(rows), columnFilters, NowTimeStamp(Head(nows)))
                 THEN <<Head(rows)>> \o rest
                 ELSE rest

\* the sorting function the table picks for a column of strings with digits:
\* the strings are compared chunk by chunk, the digit chunks as numbers, so
\* two timestamps compare on their date and time fields first and on their
\* offset suffix last
compareAlphanumeric(a, b) ==
    IF a = Undefined \/ b = Undefined THEN 0
    ELSE IF ~a[1].valid \/ ~b[1].valid THEN 0
    ELSE IF a[1].wall < b[1].wall THEN -1
    ELSE IF a[1].wall > b[1].wall THEN 1
    ELSE IF a[1].off < b[1].off THEN -1
    ELSE IF a[1].off > b[1].off THEN 1
    ELSE 0

\* the comparator of getSortedRowModel: the sorting entries in order, each
\* negated when descending, then the rows' indexes
RowBefore(rowA, rowB, sorting) ==
    LET sortInt == IF sorting = <<>> THEN 0
                   ELSE LET c == compareAlphanumeric(rowA.original.startDateTime,
                                                     rowB.original.startDateTime)
                        IN  IF sorting[1].desc THEN -c ELSE c
    IN  IF sortInt # 0 THEN sortInt < 0 ELSE rowA.index < rowB.index

RECURSIVE InsertRow(_, _, _)
InsertRow(row, sorted, sorting) ==
    IF sorted = <<>> THEN <<row>>
    ELSE IF RowBefore(row, Head(sorted), sorting) THEN <<row>> \o sorted
    ELSE <<Head(sorted)>> \o InsertRow(row, Tail(sorted), sorting)

RECURSIVE SortRows(_, _)
\* getSortedRowModel
SortRows(rows, sorting) ==
    IF rows = <<>> THEN <<>>
    ELSE InsertRow(Head(rows), SortRows(Tail(rows), sorting), sorting)

\* table.getRowModel(): computed for one data array and kept until it changes
ComputeRowModel(movies, state, nows) ==
    [data |-> movies,
     nows |-> nows,
     rows |-> SortRows(FilterRows(CoreRows(movies), state.columnFilters, nows),
                       state.sorting)]

\* the instants of the new Date() calls of one filtering run that starts at c
NowSeqs(c, n) ==
    IF n = 0 THEN {<<>>}
    ELSE {s \in [1..n -> c..MaxClock] : \A i \in 1..n : \A j \in i..n : s[i] <= s[j]}

----------------------------------------------------------------------------
(* useQuery({ queryKey: ['movies'], queryFn: getMovies }), default options *)

\* the default number of retries of a failed query function
Retry == 3

InitialQuery ==
    [status       |-> "pending",
     fetchStatus  |-> "fetching",
     data         |-> Undefined,
     error        |-> Undefined,
     failureCount |-> 0]

\* the query function resolved
QuerySuccess(q, json) ==
    [q EXCEPT !.status = "success", !.fetchStatus = "idle", !.data = Some(json),
              !.error = Undefined, !.failureCount = 0]

\* the query function rejected and a retry is left
QueryFailed(q) == [q EXCEPT !.failureCount = @ + 1]

\* the query function rejected and no retry is left: the data stays
QueryError(q, message) ==
    [q EXCEPT !.status = "error", !.fetchStatus = "idle", !.error = Some(message),
              !.failureCount = @ + 1]

\* a new fetch starts; a query without data goes back to pending
QueryFetch(q) ==
    IF q.data = Undefined
        THEN [q EXCEPT !.status = "pending", !.fetchStatus = "fetching",
                       !.error = Undefined, !.failureCount = 0]
        ELSE [q EXCEPT !.fetchStatus = "fetching", !.failureCount = 0]

----------------------------------------------------------------------------
(* App: the render *)

Blank == [loading |-> FALSE, error |-> Undefined, table |-> Undefined, crashed |-> FALSE]

\* an exception in the render, with no error boundary: nothing stays mounted
Crashed == [Blank EXCEPT !.crashed = TRUE]

\* a variant of App that tests error before isPending and renders the table
\* whenever there is data
AppIndependent(q, rm) ==
    [loading |-> q.status = "pending" /\ q.error = Undefined,
     error   |-> IF q.error # Undefined THEN Some(q.error[1]) ELSE Undefined,
     table   |-> IF q.data # Undefined
                     THEN Some([i \in 1..Len(rm.rows) |-> RowCells(rm.rows[i])[1]])
                     ELSE Undefined,
     crashed |-> FALSE]

\* isPending ? Loading... : error ? Error: {error.message} : <table>
App(q, rm) ==
    IF q.status = "pending" THEN [Blank EXCEPT !.loading = TRUE]
    ELSE IF q.error # Undefined
        THEN [Blank EXCEPT !.error = Some("Error: " \o q.error[1])]
    ELSE IF \E i \in 1..Len(rm.rows) : RowCells(rm.rows[i]) = Threw THEN Crashed
    ELSE [Blank EXCEPT
            !.table = Some([i \in 1..Len(rm.rows) |-> RowCells(rm.rows[i])[1]])]

\* the render after a change of the query; after a crash nothing renders
Render(q, rm) == IF view.crashed THEN view ELSE App(q, rm)

----------------------------------------------------------------------------
(* Actions *)

TypedFeeds ==
    {MoviesResponse(ms) :
        ms \in UNION {[1..n -> {Movie(<<"I">>, <<<<"N">>>>, d, Some(850), Some(75)) :
                                    d \in DateStrings \cup {InvalidDateString}}] :
                      n \in 0..MaxMovies}}

Init ==
    /\ feed \in TypedFeeds
    /\ clock = 0
    /\ query = InitialQuery
    /\ origin = Undefined
    /\ tableState = InitialTableState
    /\ rowModel = [data |-> <<>>, nows |-> <<>>, rows |-> <<>>]
    /\ view = App(InitialQuery, rowModel)

\* time passes; nothing re-renders on a clock tick
Tick ==
    /\ clock < MaxClock
    /\ clock' = clock + 1
    /\ UNCHANGED <<feed, query, origin, tableState, rowModel, view>>

\* getMovies resolves: the query succeeds and App renders the table, which
\* filters and sorts again when its data array changed
FetchResolved ==
    /\ query.fetchStatus = "fetching"
    /\ \E res \in Responses(feed) :
        LET r == getMovies(res)
        IN  /\ r.resolved
            /\ query' = QuerySuccess(query, r.json[1])
            /\ origin' = Some(res)
            /\ LET movies == TableData(Some(r.json[1]))
               IN  IF view.crashed \/ movies = rowModel.data
                       THEN UNCHANGED <<rowModel, clock>>
                       ELSE \E nows \in NowSeqs(clock, Len(movies)) :
                               /\ rowModel' = ComputeRowModel(movies, tableState, nows)
                               /\ clock' = IF nows = <<>> THEN clock ELSE nows[Len(nows)]
    /\ view' = Render(query', rowModel')
    /\ UNCHANGED <<feed, tableState>>

\* getMovies rejects: the query retries, or after the last retry fails
FetchRejected ==
    /\ query.fetchStatus = "fetching"
    /\ \E res \in Responses(feed) :
        LET r == getMovies(res)
        IN  /\ ~r.resolved
            /\ query' = IF query.failureCount < Retry
                            THEN QueryFailed(query)
                            ELSE QueryError(query, r.message)
    /\ view' = Render(query', rowModel)
    /\ UNCHANGED <<feed, clock, origin, tableState, rowModel>>

\* the window regains focus or the network reconnects: a settled query is
\* stale at once and is fetched again
Refetch ==
    /\ query.fetchStatus = "idle"
    /\ ~view.crashed
    /\ query' = QueryFetch(query)
    /\ view' = Render(query', rowModel)
    /\ UNCHANGED <<feed, clock, origin, tableState, rowModel>>

Next == Tick \/ FetchResolved \/ FetchRejected \/ Refetch

Spec == Init /\ [][Next]_vars

----------------------------------------------------------------------------
(* The cells of one movie: titles, directors and ratings drawn from bounded *)
(* sets, the movie fetched once and rendered.                               *)

TitleChars == {"I", "%", "&", "+"}

DirectorNames == {<<"N">>, <<"K", " ", "J">>}

\* ratings in tenths: absent, 0, 7.5 and 85
RatingSamples == {Undefined, Some(0), Some(75), Some(850)}

SeqsUpTo(S, lo, hi) == UNION {[1..n -> S] : n \in lo..hi}

CellMovies ==
    {Movie(t, ds, [valid |-> TRUE, wall |-> 0, off |-> 0], rotten, imdb) :
        t \in SeqsUpTo(TitleChars, 1, MaxTitleLen),
        ds \in SeqsUpTo(DirectorNames, 0, MaxDirectors),
        rotten \in RatingSamples,
        imdb \in RatingSamples}

InitCells ==
    /\ feed \in {MoviesResponse(<<m>>) : m \in CellMovies}
    /\ clock = 0
    /\ query = InitialQuery
    /\ origin = Undefined
    /\ tableState = InitialTableState
    /\ rowModel = [data |-> <<>>, nows |-> <<>>, rows |-> <<>>]
    /\ view = App(InitialQuery, rowModel)

NextCells == FetchResolved

SpecCells == InitCells /\ [][NextCells]_vars

----------------------------------------------------------------------------
(* Bodies that parse as JSON but are no MoviesResponse: a movie record may  *)
(* lack any one of its fields.                                              *)

BaseMovie(start) == Movie(<<"I">>, <<<<"N">>>>, start, Some(850), Some(75))

Without(m, field) == [m EXCEPT ![field] = Undefined]

UntypedMovies ==
    UNION {{m,
            Without(m, "title"), Without(m, "directors"), Without(m, "iconUrl"),
            Without(m, "startDateTime"), Without(m, "stopDateTime"),
            Without(m, "channelId"), Without(m, "ratingsInfo")} :
           m \in {BaseMovie([valid |-> TRUE, wall |-> 0, off |-> o]) : o \in Offsets}}

InitUntyped ==
    /\ feed \in {MoviesResponse(ms) : ms \in SeqsUpTo(UntypedMovies, 0, MaxMovies)}
    /\ clock = 0
    /\ query = InitialQuery
    /\ origin = Undefined
    /\ tableState = InitialTableState
    /\ rowModel = [data |-> <<>>, nows |-> <<>>, rows |-> <<>>]
    /\ view = App(InitialQuery, rowModel)

SpecUntyped == InitUntyped /\ [][Next]_vars

----------------------------------------------------------------------------
(* Properties *)

TableShown == view.table # Undefined

DisplayedRows == IF TableShown THEN view.table[1] ELSE <<>>

Displayed(i) == \E k \in 1..Len(DisplayedRows) : DisplayedRows[k].id = i

\* the age of movie i of the filtered data at the instant its filter ran,
\* boxed: NaN when its start does not parse
AgeAtFilter(i) ==
    LET start == DateGetTime(rowModel.data[i].startDateTime)
    IN  IF start = NaN THEN NaN
        ELSE Some(NowTimeStamp(rowModel.nows[i]) - start[1])

\* C1 as claimed: with the table shown, a movie is displayed if and only if
\* now - startDateTime <= 1 hour at the instant its filter ran (inclusive)
C1_DisplayedIffWithinHourInclusive ==
    TableShown =>
        \A i \in 1..Len(rowModel.data) :
            Displayed(i) <=> (AgeAtFilter(i) # NaN /\ AgeAtFilter(i)[1] <= 3600000)

\* C1 amended: with the table shown, a movie is displayed if and only if
\* now - startDateTime < 1 hour at the instant its filter ran; a movie that
\* started exactly one hour before is not displayed
C1_DisplayedIffWithinHourStrict ==
    TableShown =>
        \A i \in 1..Len(rowModel.data) :
            Displayed(i) <=> (AgeAtFilter(i) # NaN /\ AgeAtFilter(i)[1] < 3600000)

\* the table is shown with a movie starting now, displayed, and a movie that
\* started exactly one hour before its filter ran, not displayed
C1_Witness ==
    /\ TableShown
    /\ \E i, j \in 1..Len(rowModel.data) :
        /\ AgeAtFilter(i) = Some(0) /\ Displayed(i)
        /\ AgeAtFilter(j) = Some(3600000) /\ ~Displayed(j)

\* a response was received and its status is in the 2xx range
IsOk(res) == res.received /\ res.status \in 200..299

\* C2 as claimed: a response becomes the data of the query only when it was
\* received with a 2xx status and a body that parses as JSON; a network
\* failure, another status and an unparsable body never resolve
C2_FailuresNeverResolve ==
    origin # Undefined => IsOk(origin[1]) /\ origin[1].body # Undefined

\* C3 as claimed: once the table is shown it stays shown, and once the error
\* message is shown it stays shown
C3_NoTransitionBack ==
    [][/\ view.table # Undefined => view'.table # Undefined
       /\ view.error # Undefined => view'.error # Undefined]_vars

\* C4 as claimed: the displayed rows are in chronological order of the
\* instants their startDateTime denote
C4_ChronologicalOrder ==
    \A i, j \in 1..Len(DisplayedRows) :
        i < j => DateGetTime(DisplayedRows[i].original.startDateTime)[1]
                    <= DateGetTime(DisplayedRows[j].original.startDateTime)[1]

ExpectedRating(value, suffix) ==
    IF value # Undefined /\ value[1] # 0 THEN NumberText(value[1]) \o suffix ELSE <<"-">>

\* C5: each rating cell of a displayed row is the rating followed by the
\* suffix of its column when the rating is present and not 0, and "-" otherwise
C5_RatingCells ==
    \A k \in 1..Len(DisplayedRows) :
        LET row == DisplayedRows[k]
            ratings == row.original.ratingsInfo[1]
        IN  /\ row.rotten = ExpectedRating(ratings.rottenRating, <<"%">>)
            /\ row.imdb = ExpectedRating(ratings.imdbRating, <<"/", "1", "0">>)

\* a displayed row whose Rotten Tomatoes rating is 0, rendered "-", and whose
\* IMDb rating is 7.5, rendered "7.5/10"
C5_Witness ==
    \E k \in 1..Len(DisplayedRows) :
        LET row == DisplayedRows[k]
        IN  /\ row.original.ratingsInfo[1].rottenRating = Some(0)
            /\ row.rotten = <<"-">>
            /\ row.original.ratingsInfo[1].imdbRating = Some(75)
            /\ row.imdb = <<"7", ".", "5", "/", "1", "0">>

Shown == {k \in {"loading", "error", "table"} :
            \/ k = "loading" /\ view.loading
            \/ k = "error" /\ view.error # Undefined
            \/ k = "table" /\ view.table # Undefined}

\* C6: when the query failed with message m the view shows the text
\* "Error: m", no table and no loading indicator; in every state exactly one
\* of loading indicator, error message and table is shown
C6_ErrorTextAndExactlyOne ==
    /\ query.status = "error" =>
        /\ view.error = Some("Error: " \o query.error[1])
        /\ view.table = Undefined
        /\ ~view.loading
    /\ Cardinality(Shown) = 1

\* the query failed after it had data: the error text alone is shown
C6_Witness ==
    /\ query.status = "error"
    /\ query.data # Undefined
    /\ view.error = Some("Error: Failed to fetch")
    /\ Shown = {"error"}

\* the inverse of PercentEscape, as a browser decodes a percent-escape
Unescape(h1, h2) ==
    CASE <<h1, h2>> = <<"2", "0">> -> " "
      [] <<h1, h2>> = <<"2", "3">> -> "#"
      [] <<h1, h2>> = <<"2", "5">> -> "%"
      [] <<h1, h2>> = <<"2", "6">> -> "&"
      [] <<h1, h2>> = <<"2", "B">> -> "+"
      [] OTHER -> "?"

RECURSIVE PercentDecode(_)
PercentDecode(text) ==
    IF text = <<>> THEN <<>>
    ELSE IF Head(text) = "%" /\ Len(text) >= 3
        THEN <<Unescape(text[2], text[3])>> \o PercentDecode(SubSeq(text, 4, Len(text)))
    ELSE <<Head(text)>> \o PercentDecode(Tail(text))

RECURSIVE UpToDelimiter(_)
UpToDelimiter(text) ==
    IF text = <<>> THEN <<>>
    ELSE IF Head(text) \in {"&", "#"} THEN <<>>
    ELSE <<Head(text)>> \o UpToDelimiter(Tail(text))

\* the decoded value of the parameter q of a search link: what follows
\* "?q=" up to the next "&" or "#", percent-decoded
QueryParameter(href) == PercentDecode(UpToDelimiter(Tail(href)))

\* C7: for every displayed movie with at least one director the decoded
\* parameter q of the title link is the title, one space, the first director
C7_SearchQueryTitleAndFirstDirector ==
    \A k \in 1..Len(DisplayedRows) :
        LET row == DisplayedRows[k]
            directors == row.original.directors[1]
        IN  Len(directors) >= 1 =>
                /\ Head(row.title.href) = "https://google.fr/search?q="
                /\ QueryParameter(row.title.href)
                        = row.original.title[1] \o <<" ">> \o directors[1]

\* a displayed movie titled "%&" with two directors, whose link asks for
\* "%& N"
C7_Witness ==
    \E k \in 1..Len(DisplayedRows) :
        LET row == DisplayedRows[k]
        IN  /\ row.original.title = Some(<<"%", "&">>)
            /\ row.original.directors = Some(<<<<"N">>, <<"K", " ", "J">>>>)
            /\ QueryParameter(row.title.href) = <<"%", "&", " ", "N">>

\* C8 as claimed: for a displayed movie without directors the search query
\* is the title with no director text after it
C8_NoDirectorText ==
    \A k \in 1..Len(DisplayedRows) :
        LET row == DisplayedRows[k]
        IN  row.original.directors = Some(<<>>) =>
                QueryParameter(row.title.href)
                    \in {row.original.title[1], row.original.title[1] \o <<" ">>}

\* C9 as claimed: whenever the fetch succeeded the table is shown, whatever
\* fields the movie records of the body lack
C9_SuccessShowsTable == query.status = "success" => view.table # Undefined

FilterValues == {"dummy", "", "other"}

\* C10: the column filters are those of the initial state in every state,
\* and the filter function gives the same result for a row whatever the
\* filter value
C10_FilterStatic ==
    /\ tableState.columnFilters = <<[id |-> "startDateTime", value |-> "dummy"]>>
    /\ \A i \in 1..Len(rowModel.data) :
        \A v \in FilterValues :
            LET row == CoreRows(rowModel.data)[i]
                now == NowTimeStamp(rowModel.nows[i])
            IN  filterFn(row, "startDateTime", v, now)
                    = filterFn(row, "startDateTime", "dummy", now)

\* after a success, a refetch in flight, the table shown with a movie of the
\* data filtered out
C10_Witness ==
    /\ TableShown
    /\ query.status = "success"
    /\ query.fetchStatus = "fetching"
    /\ \E i \in 1..Len(rowModel.data) : ~Displayed(i)

====
